---- MODULE Spec2Model ----
(***************************************************************************)
(* Model of the agent-network database core: the tables, constraints and   *)
(* PL/pgSQL functions of the schema (connections, service_requests,        *)
(* agent_responses, agent_messages, broadcast_request,                     *)
(* record_agent_response, get_ranked_results).                             *)
(*                                                                         *)
(* Numbers: trust_score and match_score are FLOATs in [0,1] in the schema; *)
(* here they are integers in hundredths (0.9 is 90).  final_score is in    *)
(* thousandths: match*0.7 + trust*0.3 becomes match*7 + trust*3.           *)
(*                                                                         *)
(* SQL NULL and the typed outcomes of a call are records [kind, val].      *)
(* A constraint violation is reported under the error name of the          *)
(* operation's contract: unique_violation on agent_responses is            *)
(* DuplicateResponse, foreign_key_violation on request_id is               *)
(* UnknownRequest, on responding_user_id UnknownCandidate; on connections  *)
(* check_violation is InvalidConnection, unique_violation is               *)
(* DuplicateConnection and foreign_key_violation is NotFound.              *)
(***************************************************************************)
EXTENDS Integers, Sequences, FiniteSets, TLC

\* ---------------------------------------------------------------- bounds
MaxUsers == 4
MaxRequests == 2
MaxConnections == 4
MaxMessages == 3
NumAttempts == 2
MaxSkills == 3
MaxFetches == 2

UserIds == 1..MaxUsers
RequestIds == 1..MaxRequests
Attempts == 1..NumAttempts
Slots == 1..MaxFetches

\* values a caller passes in
TrustValues == {0, 90}
\* trust_score is a FLOAT without a range constraint: values outside 0.0 to 1.0
TrustInputs == TrustValues \cup {-50, 150}
Evals == { [is_match |-> TRUE, match_score |-> 50],
           [is_match |-> TRUE, match_score |-> 20],
           [is_match |-> FALSE, match_score |-> 20] }

\* ------------------------------------------------------------- constants
\* COALESCE(c.trust_score, 1.0)
DefaultTrust == 100
\* ar.match_score * 0.7
MatchWeight == 7
\* trust_score * 0.3
TrustWeight == 3

\* is_match := match_score >= 0.3, as the fraction 3 / 10
ThresholdNum == 3
ThresholdDen == 10

\* the sample rows the schema inserts
Alice == 1
Bob == 2
Carol == 3

\* users            the ids of the rows of users
\* profiles         for each user id the skills of its row of profiles, NULL
\*                  where the user has no profile
\* connections      the rows of connections, in insertion order
\* service_requests the rows of service_requests; the id of a row is its index
\* agent_responses  the committed rows of agent_responses
\* agent_messages   the committed rows of agent_messages
\* txn              the calls of record_agent_response, each in its transaction
\* ret              what the last completed call of another operation returned
\* the browser page of frontend/app.js:
\* currentUser         the global currentUser, null when nobody is logged in
\* localStorage        the item 'currentUser' of localStorage, null when removed
\* conversationStarted the global flag
\* profile_messages    the chat messages shown in the element profile-messages
\* main_app            TRUE when the element main-app is displayed, FALSE when
\*                     the element user-selection is
\* alerted             the text of the last alert shown
\* fetches             the requests in flight, each with the position of the
\*                     async function that awaits it
VARIABLES users, profiles, connections, service_requests, agent_responses,
          agent_messages, txn, ret,
          currentUser, localStorage, conversationStarted, profile_messages,
          main_app, alerted, fetches

frontend == <<currentUser, localStorage, conversationStarted, profile_messages,
              main_app, alerted, fetches>>

vars == <<users, profiles, connections, service_requests, agent_responses,
          agent_messages, txn, ret, frontend>>

\* ------------------------------------------------------------ SQL values
Null == [kind |-> "null", val |-> 0]
IntVal(n) == [kind |-> "int", val |-> n]
Json(s) == [kind |-> "array", val |-> s]
Error(e) == [kind |-> "error", val |-> e]
Uuid(n) == [kind |-> "uuid", val |-> n]
Obj(o) == [kind |-> "object", val |-> o]

\* what the last completed call returned: the operation, its arguments (0
\* where it has none) and its value or error
Ret(op, a, b, out) == [op |-> op, user |-> a, req |-> b, out |-> out]

\* ----------------------------------------------------------- sample data
\* the structured_query of the example workflow
ExampleQuery == Obj([skills |-> Json(<<"UI/UX Design", "Figma">>)])

\* the skills of the sample profiles
SampleProfiles ==
    [u \in UserIds |->
        IF u = Alice THEN Json(<<"UI/UX Design", "Figma", "Design Systems", "User Research">>)
        ELSE IF u = Bob THEN Json(<<"React", "Node.js", "PostgreSQL", "TypeScript">>)
        ELSE IF u = Carol THEN Json(<<"Product Strategy", "User Research", "Agile", "Roadmapping">>)
        ELSE Null]

\* ----------------------------------------------------------- connections
\* variant: the table without the CHECK
no_self_connection_mut(a, b) == TRUE

\* CONSTRAINT no_self_connection CHECK (user_a_id != user_b_id)
no_self_connection(a, b) == a # b

LEAST(a, b) == IF a <= b THEN a ELSE b
GREATEST(a, b) == IF a >= b THEN a ELSE b

\* variant: the index on the pair as stored, (user_a_id, user_b_id)
idx_unique_connection_mut(a, b) ==
    \A i \in 1..Len(connections) :
        ~ (connections[i].user_a_id = a /\ connections[i].user_b_id = b)

\* CREATE UNIQUE INDEX idx_unique_connection (LEAST(a,b), GREATEST(a,b)):
\* TRUE when the new key is not yet in the index
idx_unique_connection(a, b) ==
    \A i \in 1..Len(connections) :
        ~ (/\ LEAST(connections[i].user_a_id, connections[i].user_b_id) = LEAST(a, b)
           /\ GREATEST(connections[i].user_a_id, connections[i].user_b_id) = GREATEST(a, b))

\* INSERT INTO connections (user_a_id, user_b_id, trust_score): the CHECK is
\* evaluated first, then the unique index, then the foreign keys.
connect(a, b, t) ==
    /\ Len(connections) < MaxConnections
    /\ IF ~ no_self_connection(a, b)
         THEN /\ ret' = Ret("connect", a, b, Error("InvalidConnection"))
              /\ UNCHANGED connections
         ELSE IF ~ idx_unique_connection(a, b)
         THEN /\ ret' = Ret("connect", a, b, Error("DuplicateConnection"))
              /\ UNCHANGED connections
         ELSE IF a \notin users \/ b \notin users
         THEN /\ ret' = Ret("connect", a, b, Error("NotFound"))
              /\ UNCHANGED connections
         ELSE /\ connections' = Append(connections,
                    [user_a_id |-> a, user_b_id |-> b, trust_score |-> t])
              /\ ret' = Ret("connect", a, b, Uuid(Len(connections) + 1))
    /\ UNCHANGED <<frontend, profiles, users, service_requests, agent_responses, agent_messages, txn>>

\* ------------------------------------------------------- get_connections
\* variant: WHERE user_a_id = p_user_id only
connection_rows_mut(p_user_id) ==
    {k \in 1..Len(connections) :
        /\ connections[k].user_a_id = p_user_id
        /\ connections[k].user_b_id \in users}

\* FROM (SELECT CASE ... END AS connected_user_id, trust_score FROM connections
\*       WHERE user_a_id = p_user_id OR user_b_id = p_user_id) c
\* JOIN users u ON u.id = c.connected_user_id: the rows of connections kept
connection_rows(p_user_id) ==
    {k \in 1..Len(connections) :
        /\ (connections[k].user_a_id = p_user_id \/ connections[k].user_b_id = p_user_id)
        /\ (IF connections[k].user_a_id = p_user_id
              THEN connections[k].user_b_id
              ELSE connections[k].user_a_id) \in users}

\* json_build_object('user_id', connected_user_id, 'trust_score', c.trust_score)
connection_object(p_user_id, k) ==
    [user_id |-> IF connections[k].user_a_id = p_user_id
                   THEN connections[k].user_b_id
                   ELSE connections[k].user_a_id,
     trust_score |-> connections[k].trust_score]

\* every value get_connections can return: json_agg has no ORDER BY, the rows
\* come in whatever order the join produced them; COALESCE(result, '[]')
get_connections(p_user_id) ==
    LET rows == connection_rows(p_user_id)
        n == Cardinality(rows)
        scans == {f \in [1..n -> rows] : \A i, j \in 1..n : f[i] = f[j] => i = j}
    IN  {Json([i \in 1..n |-> connection_object(p_user_id, f[i])]) : f \in scans}

\* GET /api/connections/{user_id}
list_connections(u) ==
    /\ \E o \in get_connections(u) : ret' = Ret("get_connections", u, 0, o)
    /\ UNCHANGED <<frontend, profiles, users, connections, service_requests, agent_responses,
                   agent_messages, txn>>

\* ----------------------------------------------------------------- users
\* INSERT INTO users (email, name)
create_user ==
    /\ Cardinality(users) < MaxUsers
    /\ users' = users \cup {Cardinality(users) + 1}
    /\ ret' = Ret("create_user", 0, 0, Uuid(Cardinality(users) + 1))
    /\ UNCHANGED <<frontend, profiles, connections, service_requests, agent_responses, agent_messages, txn>>

\* ------------------------------------------------------ service_requests
\* variant: another default
status_default_mut == "completed"

\* status VARCHAR(50) DEFAULT 'active'
status_default == "active"

\* INSERT INTO service_requests (requesting_user_id, query_text, structured_query)
\* status takes its DEFAULT, completed_at is NULL
create_request(u, q) ==
    /\ Len(service_requests) < MaxRequests
    /\ u \in users
    /\ service_requests' = Append(service_requests,
            [requesting_user_id |-> u, structured_query |-> q,
             status |-> status_default, completed_at |-> Null])
    /\ ret' = Ret("create_request", u, 0, Uuid(Len(service_requests) + 1))
    /\ UNCHANGED <<frontend, profiles, users, connections, agent_responses, agent_messages, txn>>

RequestExists(r) == r \in 1..Len(service_requests)

\* the transitions of a request out of active: the ranking was finalized and
\* returned to the requester (completed, with its completion time), or the
\* requester aborted (cancelled); a request that has left active stays as it is
complete_request(r) ==
    /\ RequestExists(r)
    /\ service_requests[r].status = "active"
    /\ service_requests' = [service_requests EXCEPT ![r].status = "completed",
                                                    ![r].completed_at = IntVal(1)]
    /\ ret' = Ret("complete", 0, r, Null)
    /\ UNCHANGED <<frontend, profiles, users, connections, agent_responses, agent_messages, txn>>

cancel_request(r) ==
    /\ RequestExists(r)
    /\ service_requests[r].status = "active"
    /\ service_requests' = [service_requests EXCEPT ![r].status = "cancelled"]
    /\ ret' = Ret("cancel", 0, r, Null)
    /\ UNCHANGED <<frontend, profiles, users, connections, agent_responses, agent_messages, txn>>

\* --------------------------------------------------------- evaluate_match
\* A match_score is the FLOAT quotient of two array lengths; it is kept as the
\* fraction [num, den], den > 0, and compared by cross-multiplication.

\* SELECT structured_query INTO request_data FROM service_requests WHERE id = ...
\* NULL when no row is selected
request_data(p_request_id) ==
    IF RequestExists(p_request_id)
      THEN service_requests[p_request_id].structured_query
      ELSE Null

\* SELECT row_to_json(p)::jsonb INTO profile_data FROM profiles p WHERE user_id = ...
profile_data(p_candidate_user_id) ==
    IF profiles[p_candidate_user_id].kind = "null"
      THEN Null
      ELSE Obj([skills |-> profiles[p_candidate_user_id]])

\* data->'skills': NULL for NULL and for an object without the key
skills_of(data) == IF data.kind = "null" THEN Null ELSE data.val.skills

\* jsonb_array_elements_text(jsonb): no rows for NULL
jsonb_array_elements_text(arr) == IF arr.kind = "null" THEN << >> ELSE arr.val

\* variant: an aggregate that yields an empty array over no rows
jsonb_agg_mut(rows) == Json(rows)

\* jsonb_agg over no rows is NULL
jsonb_agg(rows) == IF rows = << >> THEN Null ELSE Json(rows)

\* SELECT jsonb_agg(skill) FROM jsonb_array_elements_text(profile_data->'skills')
\* AS skill WHERE skill IN (SELECT jsonb_array_elements_text(request_data->'skills')):
\* one row per element of the profile's array, text compared exactly
matched_skills(request, profile) ==
    LET required == jsonb_array_elements_text(skills_of(request))
        IsRequired(skill) == \E i \in 1..Len(required) : required[i] = skill
    IN  jsonb_agg(SelectSeq(jsonb_array_elements_text(skills_of(profile)), IsRequired))

\* jsonb_array_length(matched_skills)::FLOAT /
\*     GREATEST(jsonb_array_length(request_data->'skills'), 1); 0.0 in the ELSE branch
compute_match_score(matched, request) ==
    IF matched.kind # "null"
      THEN [num |-> Len(matched.val),
            den |-> GREATEST(Len(jsonb_array_elements_text(skills_of(request))), 1)]
      ELSE [num |-> 0, den |-> 1]

\* variant: a threshold of one half
is_match_mut(matched, score) ==
    matched.kind # "null" /\ score.num * 2 >= score.den

\* is_match := match_score >= 0.3; FALSE in the ELSE branch
is_match(matched, score) ==
    matched.kind # "null" /\ score.num * ThresholdDen >= ThresholdNum * score.den

\* variant: the two counts the other way round
format_mut(n, m) ==
    "Matched " \o ToString(m) \o " of " \o ToString(n) \o " required skills"

\* format('Matched %s of %s required skills', n, m)
format(n, m) ==
    "Matched " \o ToString(n) \o " of " \o ToString(m) \o " required skills"

explanation(matched, request) ==
    IF matched.kind # "null"
      THEN format(Len(matched.val), Len(jsonb_array_elements_text(skills_of(request))))
      ELSE "No matching skills found"

\* json_build_object('is_match', ..., 'match_score', ..., 'matched_skills',
\*     COALESCE(matched_skills, '[]'::jsonb), 'explanation', ...)
evaluate_match(p_request_id, p_candidate_user_id) ==
    LET request == request_data(p_request_id)
        profile == profile_data(p_candidate_user_id)
        matched == matched_skills(request, profile)
        score == compute_match_score(matched, request)
    IN  Obj([is_match |-> is_match(matched, score),
             match_score |-> score,
             matched_skills |-> IF matched.kind = "null" THEN Json(<< >>) ELSE matched,
             explanation |-> explanation(matched, request)])

\* variant: the evaluation is logged in agent_messages
evaluate_mut(r, c) ==
    /\ ret' = Ret("evaluate", c, r, evaluate_match(r, c))
    /\ agent_messages' = Append(agent_messages,
          [from_user_id |-> c, to_user_id |-> c,
           message_type |-> "evaluation", request_id |-> r])
    /\ UNCHANGED <<frontend, profiles, users, connections, service_requests, agent_responses, txn>>

\* SELECT evaluate_match(request_id, candidate_user_id)
evaluate(r, c) ==
    /\ ret' = Ret("evaluate", c, r, evaluate_match(r, c))
    /\ UNCHANGED <<frontend, profiles, users, connections, service_requests, agent_responses,
                   agent_messages, txn>>

\* ------------------------------------------------------ broadcast_request
\* SELECT array_agg(CASE WHEN user_a_id = p THEN user_b_id ELSE user_a_id END)
\* FROM connections WHERE user_a_id = p OR user_b_id = p
\* array_agg over no rows is NULL, not an empty array.
\* rows is the content of connections the SELECT reads
\* variant: WHERE ... AND trust_score > 0
connected_users_in_mut(rows, p_requesting_user_id) ==
    LET agg[i \in 0..Len(rows)] ==
            IF i = 0 THEN << >>
            ELSE IF /\ \/ rows[i].user_a_id = p_requesting_user_id
                       \/ rows[i].user_b_id = p_requesting_user_id
                    /\ rows[i].trust_score > 0
                 THEN Append(agg[i - 1],
                        IF rows[i].user_a_id = p_requesting_user_id
                          THEN rows[i].user_b_id
                          ELSE rows[i].user_a_id)
                 ELSE agg[i - 1]
    IN  IF agg[Len(rows)] = << >> THEN Null ELSE Json(agg[Len(rows)])

connected_users_in(rows, p_requesting_user_id) ==
    LET agg[i \in 0..Len(rows)] ==
            IF i = 0 THEN << >>
            ELSE IF \/ rows[i].user_a_id = p_requesting_user_id
                    \/ rows[i].user_b_id = p_requesting_user_id
                 THEN Append(agg[i - 1],
                        IF rows[i].user_a_id = p_requesting_user_id
                          THEN rows[i].user_b_id
                          ELSE rows[i].user_a_id)
                 ELSE agg[i - 1]
    IN  IF agg[Len(rows)] = << >> THEN Null ELSE Json(agg[Len(rows)])

connected_users(p_requesting_user_id) ==
    connected_users_in(connections, p_requesting_user_id)

\* unnest(anyarray): no rows for NULL
unnest(arr) == IF arr.kind = "null" THEN << >> ELSE arr.val

\* array_length(anyarray, 1): NULL for NULL and for an empty array
array_length(arr) ==
    IF arr.kind = "null" THEN Null
    ELSE IF Len(arr.val) = 0 THEN Null ELSE IntVal(Len(arr.val))

\* the rows of INSERT INTO agent_messages ... SELECT p, unnest(connected_users), ...
broadcast_rows(p_requesting_user_id, p_request_id) ==
    LET targets == unnest(connected_users(p_requesting_user_id))
    IN  [i \in 1..Len(targets) |->
            [from_user_id |-> p_requesting_user_id, to_user_id |-> targets[i],
             message_type |-> "query_broadcast", request_id |-> p_request_id]]

\* agent_messages.request_id REFERENCES service_requests(id): checked for
\* every inserted row, so only when at least one row is inserted
broadcast_fk_ok(rows) ==
    \A i \in 1..Len(rows) : RequestExists(rows[i].request_id)

\* variant: the new rows take the place of the log
broadcast_request_mut(p_requesting_user_id, p_request_id) ==
    LET rows == broadcast_rows(p_requesting_user_id, p_request_id)
    IN  /\ Len(agent_messages) + Len(rows) <= MaxMessages
        /\ IF ~ broadcast_fk_ok(rows)
             THEN /\ ret' = Ret("broadcast", p_requesting_user_id, p_request_id,
                                 Error("UnknownRequest"))
                  /\ UNCHANGED agent_messages
             ELSE /\ agent_messages' = rows
                  /\ ret' = Ret("broadcast", p_requesting_user_id, p_request_id,
                                 array_length(connected_users(p_requesting_user_id)))
        /\ UNCHANGED <<frontend, profiles, users, connections, service_requests, agent_responses, txn>>

broadcast_request(p_requesting_user_id, p_request_id) ==
    LET rows == broadcast_rows(p_requesting_user_id, p_request_id)
    IN  /\ Len(agent_messages) + Len(rows) <= MaxMessages
        /\ IF ~ broadcast_fk_ok(rows)
             THEN /\ ret' = Ret("broadcast", p_requesting_user_id, p_request_id,
                                 Error("UnknownRequest"))
                  /\ UNCHANGED agent_messages
             ELSE /\ agent_messages' = agent_messages \o rows
                  /\ ret' = Ret("broadcast", p_requesting_user_id, p_request_id,
                                 array_length(connected_users(p_requesting_user_id)))
        /\ UNCHANGED <<frontend, profiles, users, connections, service_requests, agent_responses, txn>>

\* -------------------------------------------------- record_agent_response
\* Each attempt is one call of record_agent_response in its own transaction:
\*   new -> (waiting ->) inserted -> done
\* The row of the first INSERT is invisible to others until the function has
\* returned and its transaction commits.

\* Attempt p is the p-th call of record_agent_response.

\* variant: the second INSERT does not wait for the first transaction
InFlight_mut(p, r, c) == FALSE

\* another transaction has inserted the same key and not committed yet: the
\* unique index makes the second INSERT wait for the first transaction to end
InFlight(p, r, c) ==
    \E q \in Attempts \ {p} :
        /\ txn[q].pc = "inserted"
        /\ txn[q].request_id = r
        /\ txn[q].responding_user_id = c

\* variant: no UNIQUE constraint on the pair
agent_responses_unique_mut(r, c) == TRUE

\* UNIQUE(request_id, responding_user_id): TRUE when no committed row has the key
agent_responses_unique(r, c) ==
    \A i \in 1..Len(agent_responses) :
        ~ (agent_responses[i].request_id = r /\ agent_responses[i].responding_user_id = c)

\* variant: agent_responses without its two foreign keys
insert_response_mut(p, r, c) ==
    IF ~ agent_responses_unique(r, c)
      THEN [pc |-> "done", out |-> Error("DuplicateResponse")]
    ELSE [pc |-> "inserted", out |-> Null]

\* outcome of the INSERT INTO agent_responses once no conflicting insert is in
\* flight: the unique index is checked when the row is inserted, the foreign
\* keys (request_id, then responding_user_id) at the end of the statement
insert_response(p, r, c) ==
    IF ~ agent_responses_unique(r, c)
      THEN [pc |-> "done", out |-> Error("DuplicateResponse")]
    ELSE IF ~ RequestExists(r)
      THEN [pc |-> "done", out |-> Error("UnknownRequest")]
    ELSE IF c \notin users
      THEN [pc |-> "done", out |-> Error("UnknownCandidate")]
    ELSE [pc |-> "inserted", out |-> Null]

\* the call starts and runs its first INSERT
record_insert(p, r, c, m, s) ==
    /\ txn[p].pc = "new"
    /\ \A q \in Attempts : q < p => txn[q].pc # "new"
    /\ LET res == IF InFlight(p, r, c) THEN [pc |-> "waiting", out |-> Null]
                  ELSE insert_response(p, r, c)
       IN  txn' = [txn EXCEPT ![p] = [pc |-> res.pc, request_id |-> r,
                                      responding_user_id |-> c, is_match |-> m,
                                      match_score |-> s, out |-> res.out]]
    /\ UNCHANGED <<frontend, profiles, users, connections, service_requests, agent_responses,
                   agent_messages, ret>>

\* the conflicting transaction has ended: the blocked INSERT goes on
record_wake(p) ==
    /\ txn[p].pc = "waiting"
    /\ ~ InFlight(p, txn[p].request_id, txn[p].responding_user_id)
    /\ LET res == insert_response(p, txn[p].request_id, txn[p].responding_user_id)
       IN  txn' = [txn EXCEPT ![p].pc = res.pc, ![p].out = res.out]
    /\ UNCHANGED <<frontend, profiles, users, connections, service_requests, agent_responses,
                   agent_messages, ret>>

\* variant: the response row is committed without its message
record_commit_silent_mut(p) ==
    /\ txn[p].pc = "inserted"
    /\ agent_responses' = Append(agent_responses,
            [request_id |-> txn[p].request_id,
             responding_user_id |-> txn[p].responding_user_id,
             is_match |-> txn[p].is_match,
             match_score |-> txn[p].match_score])
    /\ txn' = [txn EXCEPT ![p].pc = "done", ![p].out = Uuid(Len(agent_responses) + 1)]
    /\ UNCHANGED <<frontend, profiles, users, connections, service_requests, agent_messages, ret>>

\* variant: the message goes back to the candidate, not to the requester
record_commit_mut(p) ==
    /\ txn[p].pc = "inserted"
    /\ agent_responses' = Append(agent_responses,
            [request_id |-> txn[p].request_id,
             responding_user_id |-> txn[p].responding_user_id,
             is_match |-> txn[p].is_match,
             match_score |-> txn[p].match_score])
    /\ agent_messages' = agent_messages \o
            [i \in 1..(IF RequestExists(txn[p].request_id) THEN 1 ELSE 0) |->
                [from_user_id |-> txn[p].responding_user_id,
                 to_user_id |-> txn[p].responding_user_id,
                 message_type |-> "response",
                 request_id |-> txn[p].request_id]]
    /\ txn' = [txn EXCEPT ![p].pc = "done", ![p].out = Uuid(Len(agent_responses) + 1)]
    /\ UNCHANGED <<frontend, profiles, users, connections, service_requests, ret>>

\* INSERT INTO agent_messages ... FROM service_requests sr WHERE sr.id = p_request_id;
\* RETURN response_id; commit
record_commit(p) ==
    /\ txn[p].pc = "inserted"
    /\ agent_responses' = Append(agent_responses,
            [request_id |-> txn[p].request_id,
             responding_user_id |-> txn[p].responding_user_id,
             is_match |-> txn[p].is_match,
             match_score |-> txn[p].match_score])
    /\ agent_messages' = agent_messages \o
            [i \in 1..(IF RequestExists(txn[p].request_id) THEN 1 ELSE 0) |->
                [from_user_id |-> txn[p].responding_user_id,
                 to_user_id |-> service_requests[txn[p].request_id].requesting_user_id,
                 message_type |-> "response",
                 request_id |-> txn[p].request_id]]
    /\ txn' = [txn EXCEPT ![p].pc = "done", ![p].out = Uuid(Len(agent_responses) + 1)]
    /\ UNCHANGED <<frontend, profiles, users, connections, service_requests, ret>>

\* ----------------------------------------------------- get_ranked_results
\* FROM agent_responses ar ... LEFT JOIN connections c ON (either orientation)
\* WHERE ar.request_id = p_request_id AND ar.is_match = TRUE
\* A joined row is <<i, k>>: response i with connection k, k = 0 when no
\* connection matches (LEFT JOIN).
\* variant: WHERE without ar.is_match = TRUE
rank_where_mut(i, p_request_id) ==
    agent_responses[i].request_id = p_request_id

rank_where(i, p_request_id) ==
    /\ agent_responses[i].request_id = p_request_id
    /\ agent_responses[i].is_match = TRUE

\* variant: the join matches the edge in one direction only
rank_join_on_mut(i, k) ==
    LET ar == agent_responses[i]
        sr == service_requests[ar.request_id]
        c == connections[k]
    IN  c.user_a_id = sr.requesting_user_id /\ c.user_b_id = ar.responding_user_id

rank_join_on(i, k) ==
    LET ar == agent_responses[i]
        sr == service_requests[ar.request_id]
        c == connections[k]
    IN  \/ (c.user_a_id = sr.requesting_user_id /\ c.user_b_id = ar.responding_user_id)
        \/ (c.user_b_id = sr.requesting_user_id /\ c.user_a_id = ar.responding_user_id)

\* variant: a view of agent_responses that lacks its latest committed row
rank_joined_stale_mut(p_request_id) ==
    LET sel == {i \in 1..(Len(agent_responses) - 1) : rank_where(i, p_request_id)}
    IN  {<<i, k>> \in sel \X (1..Len(connections)) : rank_join_on(i, k)}
        \cup {<<i, 0>> : i \in {j \in sel : \A k \in 1..Len(connections) : ~ rank_join_on(j, k)}}

\* variant: JOIN in place of LEFT JOIN
rank_joined_mut(p_request_id) ==
    LET sel == {i \in 1..Len(agent_responses) : rank_where(i, p_request_id)}
    IN  {<<i, k>> \in sel \X (1..Len(connections)) : rank_join_on(i, k)}

rank_joined(p_request_id) ==
    LET sel == {i \in 1..Len(agent_responses) : rank_where(i, p_request_id)}
    IN  {<<i, k>> \in sel \X (1..Len(connections)) : rank_join_on(i, k)}
        \cup {<<i, 0>> : i \in {j \in sel : \A k \in 1..Len(connections) : ~ rank_join_on(j, k)}}

\* COALESCE(c.trust_score, 1.0)
rank_trust(k) == IF k = 0 THEN DefaultTrust ELSE connections[k].trust_score

\* variant: trust weighted 0.4
final_score_mut(match_score, trust_score) == match_score * MatchWeight + trust_score * 4

\* ar.match_score * 0.7 + COALESCE(c.trust_score, 1.0) * 0.3
final_score(match_score, trust_score) == match_score * MatchWeight + trust_score * TrustWeight

\* json_build_object(...)
rank_object(row) ==
    [user_id |-> agent_responses[row[1]].responding_user_id,
     match_score |-> agent_responses[row[1]].match_score,
     trust_score |-> rank_trust(row[2]),
     final_score |-> final_score(agent_responses[row[1]].match_score, rank_trust(row[2]))]

\* variant: ORDER BY match_score DESC
rank_order_by_mut(objs) ==
    \A i \in 1..Len(objs), j \in 1..Len(objs) :
        i < j => objs[i].match_score >= objs[j].match_score

\* ORDER BY final_score DESC: no other sort key
rank_order_by(objs) ==
    \A i \in 1..Len(objs), j \in 1..Len(objs) :
        i < j => objs[i].final_score >= objs[j].final_score

\* every value the SELECT json_agg(... ORDER BY ... DESC) can return: rows of
\* equal final_score come in whatever order the executor produced them;
\* json_agg over no rows is NULL
get_ranked_results(p_request_id) ==
    LET rows == rank_joined(p_request_id)
        n == Cardinality(rows)
        scans == {f \in [1..n -> rows] : \A i, j \in 1..n : f[i] = f[j] => i = j}
        aggs == {[i \in 1..n |-> rank_object(f[i])] : f \in scans}
    IN  IF rows = {} THEN {Null}
        ELSE {Json(a) : a \in {b \in aggs : rank_order_by(b)}}

\* variant: the call leaves a message in the audit log
rank_audit_mut(p_request_id) ==
    /\ \E o \in get_ranked_results(p_request_id) :
          ret' = Ret("rank", 0, p_request_id, o)
    /\ agent_messages' = Append(agent_messages,
          [from_user_id |-> 0, to_user_id |-> 0,
           message_type |-> "ranking", request_id |-> p_request_id])
    /\ UNCHANGED <<frontend, profiles, users, connections, service_requests, agent_responses, txn>>

\* variant: returning the ranking completes the request
rank_mut(p_request_id) ==
    /\ \E o \in get_ranked_results(p_request_id) :
          ret' = Ret("rank", 0, p_request_id, o)
    /\ service_requests' =
          [i \in 1..Len(service_requests) |->
              IF i = p_request_id /\ service_requests[i].status = "active"
                THEN [service_requests[i] EXCEPT !.status = "completed",
                                                 !.completed_at = IntVal(1)]
                ELSE service_requests[i]]
    /\ UNCHANGED <<frontend, profiles, users, connections, agent_responses, agent_messages, txn>>

\* the function is one SELECT ... INTO result; RETURN result: no table is written
rank(p_request_id) ==
    /\ \E o \in get_ranked_results(p_request_id) :
          ret' = Ret("rank", 0, p_request_id, o)
    /\ UNCHANGED <<frontend, profiles, users, connections, service_requests, agent_responses,
                   agent_messages, txn>>

\* ------------------------------------------------------ frontend/app.js
null == [id |-> 0, email |-> 0, name |-> 0]

\* a user of GET /api/users: the email and the name stand for the user they
\* belong to
user_object(u) == [id |-> u, email |-> u, name |-> u]

\* a request in flight: pc is the await the function stands at, user the id
\* or the email the request names, other the user_b_id of a connection;
\* created and json describe the response to POST /api/connections
Idle == [pc |-> "idle", user |-> 0, other |-> 0, created |-> FALSE, json |-> FALSE]

Fetch(pc, user, other) ==
    [pc |-> pc, user |-> user, other |-> other, created |-> FALSE, json |-> FALSE]

FreeSlot == CHOOSE f \in Slots :
                fetches[f] = Idle /\ \A g \in Slots : g < f => fetches[g] # Idle

\* let currentUser = null; let conversationStarted = false; no user saved
InitFrontend ==
    /\ currentUser = null
    /\ localStorage = null
    /\ conversationStarted = FALSE
    /\ profile_messages = << >>
    /\ main_app = FALSE
    /\ alerted = ""
    /\ fetches = [f \in Slots |-> Idle]

\* addMessage('agent', ...): text is the kind of message, name the name put
\* into it, request the user the answered request named
addMessage(text, name, request) ==
    Append(profile_messages, [text |-> text, name |-> name, request |-> request])

\* selectExistingUser(user), with showMainApp and the synchronous head of
\* initializeProfileChat up to its first await
selectExistingUser(user) ==
    /\ ~ main_app
    /\ user \in users
    /\ currentUser' = user_object(user)
    /\ localStorage' = currentUser'
    /\ main_app' = TRUE
    /\ IF ~ conversationStarted
         THEN /\ \E f \in Slots : fetches[f] = Idle
              /\ fetches' = [fetches EXCEPT ![FreeSlot] = Fetch("profile", user, 0)]
         ELSE UNCHANGED fetches
    /\ UNCHANGED <<users, profiles, connections, service_requests, agent_responses,
                   agent_messages, txn, ret, conversationStarted, profile_messages,
                   alerted>>

logout ==
    /\ main_app
    /\ currentUser' = null
    /\ localStorage' = null
    /\ main_app' = FALSE
    /\ profile_messages' = << >>
    /\ conversationStarted' = FALSE
    /\ UNCHANGED <<users, profiles, connections, service_requests, agent_responses,
                   agent_messages, txn, ret, alerted, fetches>>

\* the catch block of initializeProfileChat: `Hi ${currentUser.name}!` throws
\* a TypeError when currentUser is null, and the promise is rejected
initializeProfileChat_catch(f) ==
    IF currentUser = null
      THEN UNCHANGED <<profile_messages, conversationStarted>>
      ELSE /\ profile_messages' = addMessage("fallback", currentUser.name, fetches[f].user)
           /\ conversationStarted' = TRUE

\* initializeProfileChat resumes after GET /api/profile/{id}: the profile has
\* a title ("complete"), has none ("incomplete"), or the request failed
initializeProfileChat_profile(f, reply) ==
    /\ fetches[f].pc = "profile"
    /\ IF reply = "failure"
         THEN /\ initializeProfileChat_catch(f)
              /\ fetches' = [fetches EXCEPT ![f] = Idle]
         ELSE IF currentUser = null
         THEN /\ UNCHANGED <<profile_messages, conversationStarted>>
              /\ fetches' = [fetches EXCEPT ![f] = Idle]
         ELSE IF reply = "complete"
         THEN /\ profile_messages' =
                    addMessage("welcome back", currentUser.name, fetches[f].user)
              /\ conversationStarted' = TRUE
              /\ fetches' = [fetches EXCEPT ![f] = Idle]
         ELSE /\ fetches' = [fetches EXCEPT ![f] = Fetch("start", currentUser.email, 0)]
              /\ UNCHANGED <<profile_messages, conversationStarted>>
    /\ UNCHANGED <<users, profiles, connections, service_requests, agent_responses,
                   agent_messages, txn, ret, currentUser, localStorage, main_app,
                   alerted>>

\* initializeProfileChat resumes after POST /api/profile/start?email=...: the
\* reply carries the id of the user with that email and the first message
initializeProfileChat_start(f, ok) ==
    /\ fetches[f].pc = "start"
    /\ fetches' = [fetches EXCEPT ![f] = Idle]
    /\ IF ~ ok
         THEN /\ initializeProfileChat_catch(f)
              /\ UNCHANGED <<currentUser, localStorage>>
         ELSE IF currentUser = null
         THEN UNCHANGED <<currentUser, localStorage, profile_messages,
                          conversationStarted>>
         ELSE /\ currentUser' = [currentUser EXCEPT !.id = fetches[f].user]
              /\ localStorage' = currentUser'
              /\ profile_messages' = addMessage("first", fetches[f].user, fetches[f].user)
              /\ conversationStarted' = TRUE
    /\ UNCHANGED <<users, profiles, connections, service_requests, agent_responses,
                   agent_messages, txn, ret, main_app, alerted>>

\* addConnection up to its await; otherUserId is the value of the select, 0
\* for the empty option
addConnection(otherUserId) ==
    /\ main_app
    /\ IF currentUser = null \/ currentUser.id = 0
         THEN /\ alerted' = "Session error. Please log out and log back in."
              /\ UNCHANGED fetches
         ELSE IF otherUserId = 0
         THEN /\ alerted' = "Please select a user"
              /\ UNCHANGED fetches
         ELSE /\ \E f \in Slots : fetches[f] = Idle
              /\ fetches' = [fetches EXCEPT
                                ![FreeSlot] = Fetch("connection", currentUser.id, otherUserId)]
              /\ UNCHANGED alerted
    /\ UNCHANGED <<users, profiles, connections, service_requests, agent_responses,
                   agent_messages, txn, ret, currentUser, localStorage,
                   conversationStarted, profile_messages, main_app>>

\* the server handles POST /api/connections {user_a_id, user_b_id}: the row is
\* inserted with the default trust, or the insert is rejected and the server
\* answers with an error status, whose body is JSON or is not
post_connections(f) ==
    /\ fetches[f].pc = "connection"
    /\ Len(connections) < MaxConnections
    /\ LET a == fetches[f].user
           b == fetches[f].other
       IN  IF /\ no_self_connection(a, b)
              /\ idx_unique_connection(a, b)
              /\ a \in users /\ b \in users
             THEN /\ connections' = Append(connections,
                        [user_a_id |-> a, user_b_id |-> b, trust_score |-> DefaultTrust])
                  /\ fetches' = [fetches EXCEPT ![f].pc = "response",
                                                ![f].created = TRUE, ![f].json = TRUE]
             ELSE /\ UNCHANGED connections
                  /\ \E json \in BOOLEAN :
                        fetches' = [fetches EXCEPT ![f].pc = "response",
                                                   ![f].created = FALSE, ![f].json = json]
    /\ UNCHANGED <<users, profiles, service_requests, agent_responses, agent_messages,
                   txn, ret, currentUser, localStorage, conversationStarted,
                   profile_messages, main_app, alerted>>

\* addConnection resumes: const data = await response.json() throws on a body
\* that is not JSON; nothing reads response.ok or response.status
addConnection_response(f) ==
    /\ fetches[f].pc = "response"
    /\ alerted' = IF fetches[f].json
                    THEN "Connection created successfully!"
                    ELSE "Failed to create connection. Please try again."
    /\ fetches' = [fetches EXCEPT ![f] = Idle]
    /\ UNCHANGED <<users, profiles, connections, service_requests, agent_responses,
                   agent_messages, txn, ret, currentUser, localStorage,
                   conversationStarted, profile_messages, main_app>>

Init ==
    /\ users = {Alice, Bob, Carol}
    /\ InitFrontend
    /\ profiles = SampleProfiles
    /\ connections = << [user_a_id |-> Alice, user_b_id |-> Bob, trust_score |-> 90],
                        [user_a_id |-> Bob, user_b_id |-> Carol, trust_score |-> 85],
                        [user_a_id |-> Alice, user_b_id |-> Carol, trust_score |-> 95] >>
    /\ service_requests = << >>
    /\ agent_responses = << >>
    /\ agent_messages = << >>
    /\ txn = [p \in Attempts |-> [pc |-> "new", request_id |-> 0, responding_user_id |-> 0,
                                  is_match |-> FALSE, match_score |-> 0, out |-> Null]]
    /\ ret = Ret("none", 0, 0, Null)

RecordSteps ==
    \/ \E p \in Attempts, r \in RequestIds, c \in UserIds, e \in Evals :
            record_insert(p, r, c, e.is_match, e.match_score)
    \/ \E p \in Attempts : record_wake(p)
    \/ \E p \in Attempts : record_commit(p)

\* the response registry: requests are created and responses recorded
NextRecord ==
    \/ \E u \in UserIds : create_request(u, ExampleQuery)
    \/ RecordSteps

SpecRecord == Init /\ [][NextRecord]_vars

\* the ranker: users join, requests are created, responses are recorded and
\* results are ranked over the connections of the sample network
NextRank ==
    \/ create_user
    \/ \E u \in UserIds : create_request(u, ExampleQuery)
    \/ RecordSteps
    \/ \E r \in RequestIds : rank(r)

SpecRank == Init /\ [][NextRank]_vars

\* the broadcaster: the graph grows, requests are created and broadcast
NextBroadcast ==
    \/ create_user
    \/ \E a \in UserIds, b \in UserIds, t \in TrustValues : connect(a, b, t)
    \/ \E u \in UserIds : create_request(u, ExampleQuery)
    \/ \E u \in UserIds, r \in RequestIds : broadcast_request(u, r)

SpecBroadcast == Init /\ [][NextBroadcast]_vars

\* the match evaluator: the request of the example workflow with any list of
\* required skills, or none, is evaluated against the sample profiles and
\* against any profile, or none, of Carol
SkillNames == {"UI/UX Design", "Figma", "figma"}
SkillLists == UNION {[1..n -> SkillNames] : n \in 0..MaxSkills}
Queries == {Obj([skills |-> Json(l)]) : l \in SkillLists} \cup {Obj([skills |-> Null])}
ProfileValues == {Json(l) : l \in SkillLists} \cup {Null}

InitEvaluate ==
    /\ users = {Alice, Bob, Carol}
    /\ InitFrontend
    /\ profiles \in {[SampleProfiles EXCEPT ![Carol] = v] : v \in ProfileValues}
    /\ connections = << [user_a_id |-> Alice, user_b_id |-> Bob, trust_score |-> 90],
                        [user_a_id |-> Bob, user_b_id |-> Carol, trust_score |-> 85],
                        [user_a_id |-> Alice, user_b_id |-> Carol, trust_score |-> 95] >>
    /\ service_requests \in
          {<< [requesting_user_id |-> Bob, structured_query |-> q,
               status |-> status_default, completed_at |-> Null] >> : q \in Queries}
    /\ agent_responses = << >>
    /\ agent_messages = << >>
    /\ txn = [p \in Attempts |-> [pc |-> "new", request_id |-> 0, responding_user_id |-> 0,
                                  is_match |-> FALSE, match_score |-> 0, out |-> Null]]
    /\ ret = Ret("none", 0, 0, Null)

NextEvaluate ==
    \E r \in RequestIds, c \in UserIds : evaluate(r, c)

SpecEvaluate == InitEvaluate /\ [][NextEvaluate]_vars

\* the scoring of the ranker: Bob has answered the request of Alice with a
\* match of any stored score, and the edge between them, if there is one,
\* carries any stored trust; neither column has a range constraint
ScoreValues == {-50, 0, 25, 50, 75, 100, 150}

InitScore ==
    /\ users = {Alice, Bob, Carol}
    /\ InitFrontend
    /\ profiles = SampleProfiles
    /\ connections \in
          {<< >>} \cup {<< [user_a_id |-> Alice, user_b_id |-> Bob, trust_score |-> t] >> :
                          t \in ScoreValues}
    /\ service_requests = << [requesting_user_id |-> Alice, structured_query |-> ExampleQuery,
                              status |-> status_default, completed_at |-> Null] >>
    /\ agent_responses \in
          {<< [request_id |-> 1, responding_user_id |-> Bob, is_match |-> TRUE,
               match_score |-> m] >> : m \in ScoreValues}
    /\ agent_messages = << [from_user_id |-> Bob, to_user_id |-> Alice,
                            message_type |-> "response", request_id |-> 1] >>
    /\ txn = [p \in Attempts |->
                IF p = 1
                  THEN [pc |-> "done", request_id |-> 1, responding_user_id |-> Bob,
                        is_match |-> TRUE, match_score |-> agent_responses[1].match_score,
                        out |-> Uuid(1)]
                  ELSE [pc |-> "new", request_id |-> 0, responding_user_id |-> 0,
                        is_match |-> FALSE, match_score |-> 0, out |-> Null]]
    /\ ret = Ret("none", 0, 0, Null)

NextScore == \E r \in RequestIds : rank(r)

SpecScore == InitScore /\ [][NextScore]_vars

\* the core operations side by side: the graph grows while requests are
\* created, broadcast, evaluated, answered and ranked
NextCore ==
    \/ create_user
    \/ \E a \in UserIds, b \in {Alice, Bob} : connect(a, b, DefaultTrust)
    \/ \E u \in {Alice} : create_request(u, ExampleQuery)
    \/ \E u \in {Alice}, r \in RequestIds : broadcast_request(u, r)
    \/ \E r \in RequestIds, c \in {Alice, Carol} : evaluate(r, c)
    \/ \E p \in Attempts, r \in RequestIds, c \in {Bob, Carol} :
            record_insert(p, r, c, TRUE, 50)
    \/ \E p \in Attempts : record_wake(p)
    \/ \E p \in Attempts : record_commit(p)
    \/ \E r \in RequestIds : rank(r)

SpecCore == Init /\ [][NextCore]_vars

\* the life of a request: it is created, broadcast, answered, and completed
\* or cancelled
NextLifecycle ==
    \/ \E u \in UserIds : create_request(u, ExampleQuery)
    \/ \E r \in RequestIds : complete_request(r)
    \/ \E r \in RequestIds : cancel_request(r)
    \/ \E u \in {Alice, Bob}, r \in RequestIds : broadcast_request(u, r)
    \/ \E p \in Attempts, r \in RequestIds, c \in {Bob, Carol} :
            record_insert(p, r, c, TRUE, 50)
    \/ \E p \in Attempts : record_wake(p)
    \/ \E p \in Attempts : record_commit(p)

SpecLifecycle == Init /\ [][NextLifecycle]_vars

\* the connection graph: users join, edges are created and listed
NextGraph ==
    \/ create_user
    \/ \E a \in UserIds, b \in UserIds, t \in TrustInputs : connect(a, b, t)
    \/ \E u \in UserIds : list_connections(u)

SpecGraph == Init /\ [][NextGraph]_vars

\* the browser page: users log in and out, the profile chat is initialised,
\* connections are added, and the server answers
ProfileReplies == {"complete", "incomplete", "failure"}

NextFrontend ==
    \/ create_user
    \/ \E user \in {Alice, Bob} : selectExistingUser(user)
    \/ logout
    \/ \E f \in Slots, reply \in ProfileReplies : initializeProfileChat_profile(f, reply)
    \/ \E f \in Slots, ok \in BOOLEAN : initializeProfileChat_start(f, ok)
    \/ \E otherUserId \in {0} \cup UserIds : addConnection(otherUserId)
    \/ \E f \in Slots : post_connections(f)
    \/ \E f \in Slots : addConnection_response(f)

SpecFrontend == Init /\ [][NextFrontend]_vars

\* ================================================================ claims
\* independent readings of the tables, used to state the claims
ResponsesOf(r, c) ==
    {i \in 1..Len(agent_responses) :
        agent_responses[i].request_id = r /\ agent_responses[i].responding_user_id = c}

ResponseMessagesOf(r, c) ==
    {i \in 1..Len(agent_messages) :
        /\ agent_messages[i].message_type = "response"
        /\ agent_messages[i].request_id = r
        /\ agent_messages[i].from_user_id = c}

SameKey(p, q) ==
    /\ txn[p].request_id = txn[q].request_id
    /\ txn[p].responding_user_id = txn[q].responding_user_id

Succeeded(p) == txn[p].pc = "done" /\ txn[p].out.kind = "uuid"
Failed(p, e) == txn[p].pc = "done" /\ txn[p].out = Error(e)

C1_State ==
    /\ \A r \in RequestIds, c \in UserIds :
          /\ Cardinality(ResponsesOf(r, c)) <= 1
          /\ Cardinality(ResponseMessagesOf(r, c)) = Cardinality(ResponsesOf(r, c))
    /\ \A p \in Attempts, q \in Attempts :
          (p # q /\ Succeeded(p) /\ Succeeded(q)) => ~ SameKey(p, q)

\* an attempt whose INSERT ran while another attempt for the same pair was in
\* flight ends with DuplicateResponse and writes nothing; the attempt in
\* flight ends with success and writes one row and one message
C1_Step ==
    \A p \in Attempts :
        /\ (txn[p].pc = "waiting" /\ txn'[p].pc # "waiting") =>
              /\ txn'[p].pc = "done"
              /\ txn'[p].out = Error("DuplicateResponse")
              /\ agent_responses' = agent_responses
              /\ agent_messages' = agent_messages
        /\ (txn[p].pc = "inserted" /\ txn'[p].pc # "inserted") =>
              /\ txn'[p].pc = "done"
              /\ txn'[p].out.kind = "uuid"
              /\ Len(agent_responses') = Len(agent_responses) + 1
              /\ Len(agent_messages') = Len(agent_messages) + 1

\* C1: at most one AgentResponse exists per (request, candidate) after any
\* interleaving of record attempts; of concurrent attempts for one pair exactly
\* one succeeds, the others fail with DuplicateResponse, and the number of
\* `response` messages always equals the number of response rows.
C1_AtMostOneResponse == [] C1_State /\ [][C1_Step]_vars

\* a second attempt is blocked on the pair while the first has committed
C1_Witness ==
    \E p \in Attempts, q \in Attempts :
        /\ Succeeded(p)
        /\ txn[q].pc = "waiting"
        /\ SameKey(p, q)
        /\ Cardinality(ResponsesOf(txn[p].request_id, txn[p].responding_user_id)) = 1

\* C2: a record call for a pair that already has a response fails with
\* DuplicateResponse and writes nothing, and no stored response row ever
\* changes.
C2_DuplicateRejected ==
    [][ /\ \A p \in Attempts :
              (/\ txn[p].pc = "new"
               /\ txn'[p].pc # "new"
               /\ ResponsesOf(txn'[p].request_id, txn'[p].responding_user_id) # {})
              => /\ txn'[p].pc = "done"
                 /\ txn'[p].out = Error("DuplicateResponse")
                 /\ agent_responses' = agent_responses
                 /\ agent_messages' = agent_messages
        /\ \A i \in 1..Len(agent_responses) :
              /\ i <= Len(agent_responses')
              /\ agent_responses'[i] = agent_responses[i] ]_vars

\* a second call with another verdict was rejected and the first verdict stands
C2_Witness ==
    \E p \in Attempts, i \in 1..Len(agent_responses) :
        /\ Failed(p, "DuplicateResponse")
        /\ agent_responses[i].request_id = txn[p].request_id
        /\ agent_responses[i].responding_user_id = txn[p].responding_user_id
        /\ agent_responses[i].is_match # txn[p].is_match
        /\ agent_responses[i].match_score # txn[p].match_score

\* the value the last call returned, when that call was rank(r)
Ranked(r) == ret.op = "rank" /\ ret.req = r /\ ret.out.kind = "array"

Requester(r) == service_requests[r].requesting_user_id

\* the edges between two users, whichever endpoint they are stored under
EdgesBetween(a, b) ==
    {k \in 1..Len(connections) :
        {connections[k].user_a_id, connections[k].user_b_id} = {a, b}}

\* C3: whatever rank(r) can return holds only candidates whose stored
\* response for request r has is_match = TRUE; a candidate with is_match =
\* FALSE or with a response to another request only never appears.
C3_OnlyMatches ==
    \A r \in RequestIds : \A o \in get_ranked_results(r) :
        o.kind = "array" =>
            \A i \in 1..Len(o.val) :
                /\ ResponsesOf(r, o.val[i].user_id) # {}
                /\ \A j \in ResponsesOf(r, o.val[i].user_id) :
                      agent_responses[j].is_match = TRUE

\* rank returned a match while the request also holds a non-matching response
C3_Witness ==
    \E r \in RequestIds :
        /\ Ranked(r)
        /\ Len(ret.out.val) = 1
        /\ \E j \in 1..Len(agent_responses) :
              /\ agent_responses[j].request_id = r
              /\ agent_responses[j].is_match = FALSE

\* C4: in whatever rank(r) can return, trust_score is the trust of the edge
\* between the requester of r and the candidate, stored in either direction,
\* and final_score = match_score * 0.7 + trust_score * 0.3 (in thousandths:
\* match * 7 + trust * 3) with match_score the stored score.
C4_TrustAndFinalScore ==
    \A r \in RequestIds : \A o \in get_ranked_results(r) :
        o.kind = "array" =>
            \A i \in 1..Len(o.val) :
                /\ \A k \in EdgesBetween(Requester(r), o.val[i].user_id) :
                      o.val[i].trust_score = connections[k].trust_score
                /\ \A j \in ResponsesOf(r, o.val[i].user_id) :
                      o.val[i].match_score = agent_responses[j].match_score
                /\ o.val[i].final_score =
                      o.val[i].match_score * 7 + o.val[i].trust_score * 3

\* rank returned a candidate whose edge is stored with the requester as
\* user_b_id and one whose edge is stored with the requester as user_a_id
C4_Witness ==
    \E r \in RequestIds :
        /\ Ranked(r)
        /\ \E i \in 1..Len(ret.out.val), k \in 1..Len(connections) :
              /\ connections[k].user_b_id = Requester(r)
              /\ connections[k].user_a_id = ret.out.val[i].user_id
              /\ ret.out.val[i].trust_score = connections[k].trust_score
        /\ \E i \in 1..Len(ret.out.val), k \in 1..Len(connections) :
              /\ connections[k].user_a_id = Requester(r)
              /\ connections[k].user_b_id = ret.out.val[i].user_id
              /\ ret.out.val[i].trust_score = connections[k].trust_score

\* C5: whatever rank(r) can return is in non-increasing order of final_score.
C5_Descending ==
    \A r \in RequestIds : \A o \in get_ranked_results(r) :
        o.kind = "array" =>
            \A i \in 1..Len(o.val), j \in 1..Len(o.val) :
                i < j => o.val[i].final_score >= o.val[j].final_score

\* rank returned two candidates of different final_score, the one with the
\* lower trust_score first
C5_Witness ==
    \E r \in RequestIds :
        /\ Ranked(r)
        /\ Len(ret.out.val) = 2
        /\ ret.out.val[1].final_score > ret.out.val[2].final_score
        /\ ret.out.val[1].trust_score < ret.out.val[2].trust_score

\* C6: ranking is deterministic, tie order included: on one state of the
\* tables rank(r) has one possible result.
C6_Deterministic ==
    \A r \in RequestIds : Cardinality(get_ranked_results(r)) <= 1

NoMatch(r) ==
    \A j \in 1..Len(agent_responses) :
        ~ (agent_responses[j].request_id = r /\ agent_responses[j].is_match = TRUE)

\* C7: when no response of the request is a match, rank returns the empty
\* sequence (no error, no null).
C7_EmptySequence ==
    \A r \in RequestIds :
        (ret.op = "rank" /\ ret.req = r /\ RequestExists(r) /\ NoMatch(r))
            => ret.out = Json(<< >>)

\* the first-degree peers of a user, read off the edges in either direction
Neighbors(u) ==
    {x \in UserIds : x # u /\ EdgesBetween(u, x) # {}}

\* the messages a step has appended to the audit log
Appended == [i \in 1..(Len(agent_messages') - Len(agent_messages)) |->
                agent_messages'[Len(agent_messages) + i]]

\* C8: broadcasting the request of a requester without connections appends
\* no message and returns candidateCount = 0, the number.
C8_ZeroConnections ==
    [][ \A u \in UserIds, r \in RequestIds :
          (/\ broadcast_request(u, r)
           /\ u \in users
           /\ RequestExists(r)
           /\ Requester(r) = u
           /\ Neighbors(u) = {})
          => /\ agent_messages' = agent_messages
             /\ ret'.out = IntVal(0) ]_vars

\* C9: a broadcast that does not fail appends exactly one query_broadcast
\* message per first-degree neighbor of the requester, from the requester, to
\* that neighbor, linked to the request, and returns the number of neighbors.
C9_ExactlyNeighbors ==
    [][ \A u \in UserIds, r \in RequestIds :
          (/\ broadcast_request(u, r)
           /\ u \in users
           /\ RequestExists(r)
           /\ ret'.out.kind # "error")
          => /\ Len(agent_messages') >= Len(agent_messages)
             /\ \A i \in 1..Len(agent_messages) : agent_messages'[i] = agent_messages[i]
             /\ \A i \in 1..Len(Appended) :
                   /\ Appended[i].message_type = "query_broadcast"
                   /\ Appended[i].from_user_id = u
                   /\ Appended[i].request_id = r
                   /\ Appended[i].to_user_id \in Neighbors(u)
                   /\ Appended[i].to_user_id # u
             /\ \A x \in Neighbors(u) :
                   Cardinality({i \in 1..Len(Appended) : Appended[i].to_user_id = x}) = 1
             /\ ret'.out = IntVal(Cardinality(Neighbors(u))) ]_vars

\* C10: a broadcast for a request id that references no ServiceRequest fails
\* with UnknownRequest and appends nothing, whatever the number of neighbors.
C10_UnknownRequest ==
    [][ \A u \in UserIds, r \in RequestIds :
          (broadcast_request(u, r) /\ u \in users /\ ~ RequestExists(r))
          => /\ ret'.out = Error("UnknownRequest")
             /\ agent_messages' = agent_messages ]_vars

\* C17: connect(a, a, trust) fails with InvalidConnection and leaves the
\* connections unchanged; no stored connection has identical endpoints.
C17_NoSelfConnection ==
    /\ [] (\A k \in 1..Len(connections) :
              connections[k].user_a_id # connections[k].user_b_id)
    /\ [][ \A a \in UserIds, t \in TrustInputs :
             connect(a, a, t)
             => /\ ret'.out = Error("InvalidConnection")
                /\ connections' = connections ]_vars

C17_Witness ==
    /\ ret.op = "connect"
    /\ ret.user = ret.req
    /\ ret.user \in users
    /\ ret.out = Error("InvalidConnection")

\* C18: connect(a, b, t) fails with DuplicateConnection when an edge already
\* joins a and b, stored in either orientation, and leaves the edge and its
\* trust as they were; no unordered pair ever has more than one edge.
C18_OneEdgePerPair ==
    /\ [] (\A a \in UserIds, b \in UserIds : Cardinality(EdgesBetween(a, b)) <= 1)
    /\ [][ \A a \in UserIds, b \in UserIds, t \in TrustInputs :
             (connect(a, b, t) /\ a # b /\ EdgesBetween(a, b) # {})
             => /\ ret'.out = Error("DuplicateConnection")
                /\ connections' = connections ]_vars

\* the duplicate was offered in the orientation opposite to the stored one,
\* with another trust
C18_Witness ==
    /\ ret.op = "connect"
    /\ ret.out = Error("DuplicateConnection")
    /\ \E k \in 1..Len(connections) :
          /\ connections[k].user_a_id = ret.req
          /\ connections[k].user_b_id = ret.user
          /\ connections[k].user_a_id # connections[k].user_b_id

\* the entries of a returned list that name user x
EntriesFor(o, x) == {i \in 1..Len(o.val) : o.val[i].user_id = x}

\* C19: b is listed among the connections of a with trust t exactly when a is
\* listed among the connections of b with trust t, whichever way the edge is
\* stored; a neighbor is listed once; the peers a broadcast selects are
\* symmetric in the same way.
C19_Symmetric ==
    /\ \A a \in users, b \in users :
          \A oa \in get_connections(a), ob \in get_connections(b) :
             /\ Cardinality(EntriesFor(oa, b)) <= 1
             /\ {oa.val[i].trust_score : i \in EntriesFor(oa, b)}
                  = {ob.val[j].trust_score : j \in EntriesFor(ob, a)}
             /\ (EntriesFor(oa, b) # {}) <=> (a # b /\ EdgesBetween(a, b) # {})
    /\ \A a \in users, b \in users :
          (\E i \in 1..Len(unnest(connected_users(a))) : unnest(connected_users(a))[i] = b)
          <=> (\E j \in 1..Len(unnest(connected_users(b))) : unnest(connected_users(b))[j] = a)

\* a user created later lists an edge of which it is the second endpoint
C19_Witness ==
    /\ ret.op = "get_connections"
    /\ ret.user \notin {Alice, Bob, Carol}
    /\ \E i \in 1..Len(ret.out.val) :
          \E k \in EdgesBetween(ret.user, ret.out.val[i].user_id) :
             /\ connections[k].user_b_id = ret.user
             /\ ret.out.val[i].trust_score = connections[k].trust_score

\* C20: every record that succeeds appends exactly one message to the audit
\* log: of type response, from the candidate, to the requester of the
\* request, linked to the request; the earlier messages stay as they were.
C20_ResponseMessage ==
    [][ \A p \in Attempts :
          (~ Succeeded(p) /\ txn'[p].pc = "done" /\ txn'[p].out.kind = "uuid")
          => /\ Len(agent_messages') = Len(agent_messages) + 1
             /\ \A i \in 1..Len(agent_messages) : agent_messages'[i] = agent_messages[i]
             /\ Appended[1] =
                  [from_user_id |-> txn'[p].responding_user_id,
                   to_user_id |-> Requester(txn'[p].request_id),
                   message_type |-> "response",
                   request_id |-> txn'[p].request_id] ]_vars

\* a candidate other than the requester has recorded its response
C20_Witness ==
    \E p \in Attempts :
        /\ Succeeded(p)
        /\ txn[p].responding_user_id # Requester(txn[p].request_id)
        /\ agent_messages # << >>
        /\ agent_messages[Len(agent_messages)].from_user_id = txn[p].responding_user_id
        /\ agent_messages[Len(agent_messages)].request_id = txn[p].request_id

\* C13 as stated: returning the ranking of an active request moves the
\* request to completed and sets its completion time.
C13_CompletedByRank ==
    [][ \A r \in RequestIds :
          (/\ rank(r)
           /\ RequestExists(r)
           /\ service_requests[r].status = "active"
           /\ ret'.out.kind = "array")
          => /\ service_requests'[r].status = "completed"
             /\ service_requests'[r].completed_at # Null ]_vars

\* C13 amended: returning the ranking of a request leaves the request as it
\* was: an active request is still active, with no completion time, after
\* get_ranked_results has returned.
C13_RankLeavesStatus ==
    [][ \A r \in RequestIds :
          rank(r) => service_requests' = service_requests ]_vars

\* a ranking with a candidate in it was returned and the request is active
C13_Witness ==
    /\ ret.op = "rank"
    /\ RequestExists(ret.req)
    /\ ret.out.kind = "array"
    /\ service_requests[ret.req].status = "active"
    /\ service_requests[ret.req].completed_at = Null

\* C11: once a request has left active, a broadcast for it and a record for
\* it that starts afterwards fail with RequestNotActive and change neither
\* the responses nor the audit log.
C11_RequestNotActive ==
    /\ [][ \A u \in UserIds, r \in RequestIds :
             (/\ broadcast_request(u, r)
              /\ RequestExists(r)
              /\ service_requests[r].status # "active")
             => /\ ret'.out = Error("RequestNotActive")
                /\ agent_messages' = agent_messages
                /\ agent_responses' = agent_responses ]_vars
    /\ [][ \A p \in Attempts :
             (/\ txn[p].pc = "new"
              /\ txn'[p].pc # "new"
              /\ RequestExists(txn'[p].request_id)
              /\ service_requests[txn'[p].request_id].status # "active")
             => /\ txn'[p].pc = "done"
                /\ txn'[p].out = Error("RequestNotActive") ]_vars

\* a broadcast for a cancelled request has reached the neighbors of its owner
C11_Reached ==
    \E r \in RequestIds :
        /\ RequestExists(r)
        /\ service_requests[r].status = "cancelled"
        /\ ret.op = "broadcast"
        /\ ret.req = r
        /\ ret.out.kind = "int"

RequiredList(r) ==
    LET q == service_requests[r].structured_query.val.skills
    IN  IF q.kind = "null" THEN << >> ELSE q.val

ProfileList(c) == IF profiles[c].kind = "null" THEN << >> ELSE profiles[c].val

ToSet(l) == {l[i] : i \in 1..Len(l)}

Max(a, b) == IF a >= b THEN a ELSE b

\* the last call was evaluate on an existing request
Evaluated == ret.op = "evaluate" /\ RequestExists(ret.req)

\* C14: evaluate returns as matchedSkills the intersection of the required
\* skills with the skills of the profile, compared exactly, and as score the
\* size of that intersection over max(number of required skills, 1).
C14_Intersection ==
    Evaluated =>
        LET o == ret.out.val
            R == ToSet(RequiredList(ret.req))
            P == ToSet(ProfileList(ret.user))
            M == ToSet(o.matched_skills.val)
        IN  /\ M = R \cap P
            /\ o.match_score.num * Max(Cardinality(R), 1)
                 = Cardinality(M) * o.match_score.den

C16_Template ==
    Evaluated =>
        ret.out.val.explanation =
            "Matched " \o ToString(Len(ret.out.val.matched_skills.val)) \o " of "
               \o ToString(Len(RequiredList(ret.req))) \o " required skills."

\* C16 amended: when at least one skill matches, the explanation is
\* "Matched N of M required skills", without a final period, N the number of
\* matched skills returned and M the number of required skills listed; when
\* no skill matches it is "No matching skills found".
C16_Explanation ==
    Evaluated =>
        ret.out.val.explanation =
            IF Len(ret.out.val.matched_skills.val) > 0
              THEN "Matched " \o ToString(Len(ret.out.val.matched_skills.val)) \o " of "
                      \o ToString(Len(RequiredList(ret.req))) \o " required skills"
              ELSE "No matching skills found"

\* skills were required, the candidate has a profile, and none matched
C16_Witness ==
    /\ Evaluated
    /\ Len(RequiredList(ret.req)) > 0
    /\ Len(ProfileList(ret.user)) > 0
    /\ ret.out.val.matched_skills = Json(<< >>)
    /\ ret.out.val.explanation = "No matching skills found"

\* C21: a record for a request id that references no request ends with
\* UnknownRequest, one for a candidate id that references no user with
\* UnknownCandidate; the call writes no response and no message.
C21_DanglingReference ==
    [][ \A p \in Attempts :
          (txn[p].pc # "done" /\ txn'[p].pc = "done")
          => /\ ~ RequestExists(txn'[p].request_id)
                => /\ txn'[p].out = Error("UnknownRequest")
                   /\ agent_responses' = agent_responses
                   /\ agent_messages' = agent_messages
             /\ (RequestExists(txn'[p].request_id) /\ txn'[p].responding_user_id \notin users)
                => /\ txn'[p].out = Error("UnknownCandidate")
                   /\ agent_responses' = agent_responses
                   /\ agent_messages' = agent_messages ]_vars

\* one call was refused for its request, another for its candidate
C21_Witness ==
    \E p \in Attempts, q \in Attempts :
        /\ Failed(p, "UnknownRequest")
        /\ ~ RequestExists(txn[p].request_id)
        /\ Failed(q, "UnknownCandidate")
        /\ RequestExists(txn[q].request_id)
        /\ txn[q].responding_user_id \notin users
        /\ agent_responses = << >>
        /\ agent_messages = << >>

\* C22: a candidate with a matching response to request r and no edge with
\* the requester of r is in whatever rank(r) can return, with trust_score 1.0
\* and final_score = match_score * 0.7 + 0.3.
C22_DefaultTrust ==
    \A r \in 1..Len(service_requests) : \A o \in get_ranked_results(r) :
        \A j \in 1..Len(agent_responses) :
            (/\ agent_responses[j].request_id = r
             /\ agent_responses[j].is_match = TRUE
             /\ EdgesBetween(Requester(r), agent_responses[j].responding_user_id) = {})
            => /\ o.kind = "array"
               /\ \E i \in 1..Len(o.val) :
                     /\ o.val[i].user_id = agent_responses[j].responding_user_id
                     /\ o.val[i].match_score = agent_responses[j].match_score
                     /\ o.val[i].trust_score = 100
                     /\ o.val[i].final_score = agent_responses[j].match_score * 7 + 300

\* rank returned a user who joined after the sample network was built and has
\* no edge with the requester
C22_Witness ==
    \E r \in RequestIds :
        /\ Ranked(r)
        /\ \E i \in 1..Len(ret.out.val) :
              /\ ret.out.val[i].user_id \in users \ {Alice, Bob, Carol}
              /\ ret.out.val[i].user_id # Requester(r)
              /\ EdgesBetween(Requester(r), ret.out.val[i].user_id) = {}
              /\ ret.out.val[i].trust_score = 100

\* C23: in whatever rank can return, an entry whose match_score and
\* trust_score both lie in [0, 1] has its final_score in [0, 1] (in
\* thousandths: in 0..1000).
C23_FinalScoreRange ==
    \A r \in RequestIds : \A o \in get_ranked_results(r) :
        o.kind = "array" =>
            \A i \in 1..Len(o.val) :
                (/\ 0 <= o.val[i].match_score /\ o.val[i].match_score <= 100
                 /\ 0 <= o.val[i].trust_score /\ o.val[i].trust_score <= 100)
                => (0 <= o.val[i].final_score /\ o.val[i].final_score <= 1000)

\* rank returned a candidate with match 1.0 and trust 1.0 on its edge: the
\* final score is 1.0
C23_Witness ==
    /\ Ranked(1)
    /\ connections # << >>
    /\ ret.out.val[1].match_score = 100
    /\ ret.out.val[1].trust_score = 100
    /\ ret.out.val[1].final_score = 1000

\* request r is one of Alice, and its responses are one of Bob with match
\* score 0.5 and one of Carol with match score 0.2, both recorded
ExampleRecorded(r) ==
    /\ RequestExists(r)
    /\ Requester(r) = Alice
    /\ \E j \in ResponsesOf(r, Bob) : agent_responses[j].match_score = 50
    /\ \E j \in ResponsesOf(r, Carol) : agent_responses[j].match_score = 20
    /\ \A j \in 1..Len(agent_responses) :
          agent_responses[j].request_id = r
             => agent_responses[j].responding_user_id \in {Bob, Carol}

ExampleBob == [user_id |-> Bob, match_score |-> 50, trust_score |-> 90, final_score |-> 620]
ExampleCarol == [user_id |-> Carol, match_score |-> 20, trust_score |-> 95, final_score |-> 425]

\* C25 as stated: with A connected to B (trust 0.9) and C (trust 0.95) and the
\* match scores 0.5 of B and 0.2 of C recorded on a request of A, rank returns
\* [B, C] with final scores 0.62 and 0.425.
C25_Example ==
    \A r \in RequestIds :
        ExampleRecorded(r)
        => \A o \in get_ranked_results(r) : o = Json(<<ExampleBob, ExampleCarol>>)

\* C25 amended: in that configuration rank returns [B, C] with final scores
\* 0.62 and 0.425 when the response of C was recorded with is_match = TRUE;
\* when it was recorded with is_match = FALSE, the verdict of the evaluator
\* for a score under 0.3, rank returns [B] alone.
C25_ExampleByVerdict ==
    \A r \in RequestIds :
        (ExampleRecorded(r) /\ \A j \in ResponsesOf(r, Bob) : agent_responses[j].is_match)
        => \A o \in get_ranked_results(r) :
              IF \A j \in ResponsesOf(r, Carol) : agent_responses[j].is_match
                THEN o = Json(<<ExampleBob, ExampleCarol>>)
                ELSE o = Json(<<ExampleBob>>)

\* both responses are recorded, that of C as no match, and rank returned [B]
C25_Witness ==
    \E r \in RequestIds :
        /\ ExampleRecorded(r)
        /\ \E j \in ResponsesOf(r, Carol) : ~ agent_responses[j].is_match
        /\ ret = Ret("rank", 0, r, Json(<<ExampleBob>>))

\* the responses recorded for request r
ResponsesTo(r) == {i \in 1..Len(agent_responses) : agent_responses[i].request_id = r}

\* C26: once a request has left active, the set of its responses never grows,
\* whatever evaluations were scheduled before: a record that arrives after
\* the cancellation is rejected with RequestNotActive.
C26_NoGrowthAfterActive ==
    [][ \A r \in 1..Len(service_requests) :
          service_requests[r].status # "active"
          => /\ Cardinality({i \in 1..Len(agent_responses') :
                               agent_responses'[i].request_id = r})
                  = Cardinality(ResponsesTo(r))
             /\ \A p \in Attempts :
                   (txn[p].pc = "new" /\ txn'[p].pc # "new" /\ txn'[p].request_id = r)
                   => txn'[p].out = Error("RequestNotActive") ]_vars

\* the candidates whose committed response to request r is a match
MatchingCandidates(r) ==
    {agent_responses[i].responding_user_id :
        i \in {j \in ResponsesTo(r) : agent_responses[j].is_match = TRUE}}

\* the candidates a returned ranking holds
RankedCandidates(o) ==
    IF o.kind = "array" THEN {o.val[i].user_id : i \in 1..Len(o.val)} ELSE {}

\* C27: a rank call that runs while records for the same request are under
\* way does not fail and returns the ranking of the responses committed at
\* the moment of the call: each returned candidate has a committed matching
\* response then, each such response is in the ranking once, and a response
\* not yet committed is not.
C27_Snapshot ==
    [][ \A r \in RequestIds :
          rank(r)
          => /\ ret'.out.kind # "error"
             /\ RankedCandidates(ret'.out) = MatchingCandidates(r)
             /\ ret'.out.kind = "array"
                   => Len(ret'.out.val) = Cardinality(MatchingCandidates(r)) ]_vars

\* rank has returned the one committed match of a request while the matching
\* response of another candidate to the same request is inserted and not
\* yet committed
C27_Witness ==
    \E r \in RequestIds, p \in Attempts :
        /\ Ranked(r)
        /\ Len(ret.out.val) = 1
        /\ txn[p].pc = "inserted"
        /\ txn[p].request_id = r
        /\ txn[p].is_match = TRUE
        /\ txn[p].responding_user_id \notin RankedCandidates(ret.out)
        /\ MatchingCandidates(r) = RankedCandidates(ret.out)

\* C28: a rank call leaves users, profiles, connections, service_requests
\* (the status included), agent_responses and the agent_messages log as they
\* were, and the calls of record under way too.
C28_ReadOnly ==
    [][ \A r \in RequestIds :
          rank(r)
          => /\ users' = users
             /\ profiles' = profiles
             /\ connections' = connections
             /\ service_requests' = service_requests
             /\ agent_responses' = agent_responses
             /\ agent_messages' = agent_messages
             /\ txn' = txn ]_vars

\* rank returned two candidates of a request: both responses and both
\* response messages are in the tables
C28_Witness ==
    \E r \in RequestIds :
        /\ Ranked(r)
        /\ Len(ret.out.val) = 2
        /\ Cardinality(ResponsesTo(r)) = 2
        /\ Len(agent_messages) = 2

\* the graphs with the edges of connections and any trust on each edge
Reweighted ==
    {[k \in 1..Len(connections) |-> [connections[k] EXCEPT !.trust_score = f[k]]] :
        f \in [1..Len(connections) -> {0, 100}]}

\* what a broadcast of request r by user u selects, sends and returns when
\* connections holds rows
BroadcastOutcome(rows, u, r) ==
    LET selected == connected_users_in(rows, u)
    IN  [candidates |-> selected,
         messages |-> [i \in 1..Len(unnest(selected)) |->
                          [from_user_id |-> u, to_user_id |-> unnest(selected)[i],
                           message_type |-> "query_broadcast", request_id |-> r]],
         count |-> array_length(selected)]

\* C30: on two graphs with the same edges and different trust on them, trust
\* 0 included, a broadcast selects the same candidates, sends the same
\* query_broadcast messages and returns the same count; and what a broadcast
\* does on the stored graph is that outcome.
C30_TrustBlind ==
    /\ [] (\A u \in UserIds, r \in RequestIds : \A w \in Reweighted :
              BroadcastOutcome(w, u, r) = BroadcastOutcome(connections, u, r))
    /\ [][ \A u \in UserIds, r \in RequestIds :
             (broadcast_request(u, r) /\ ret'.out.kind # "error")
             => /\ Appended = BroadcastOutcome(connections, u, r).messages
                /\ ret'.out = BroadcastOutcome(connections, u, r).count ]_vars

\* a broadcast reached a peer over an edge of trust 0 and one over an edge of
\* higher trust
C30_Witness ==
    /\ ret.op = "broadcast"
    /\ ret.out.kind = "int"
    /\ \E k \in 1..Len(connections), i \in 1..Len(agent_messages) :
          /\ connections[k].trust_score = 0
          /\ ret.user \in {connections[k].user_a_id, connections[k].user_b_id}
          /\ agent_messages[i].from_user_id = ret.user
          /\ agent_messages[i].request_id = ret.req
          /\ agent_messages[i].to_user_id
                \in {connections[k].user_a_id, connections[k].user_b_id} \ {ret.user}
    /\ \E k \in 1..Len(connections), i \in 1..Len(agent_messages) :
          /\ connections[k].trust_score > 0
          /\ ret.user \in {connections[k].user_a_id, connections[k].user_b_id}
          /\ agent_messages[i].from_user_id = ret.user
          /\ agent_messages[i].request_id = ret.req
          /\ agent_messages[i].to_user_id
                \in {connections[k].user_a_id, connections[k].user_b_id} \ {ret.user}

\* the criteria of request r and the listed skills of the profile of c
CriteriaOf(r) == IF RequestExists(r) THEN RequiredList(r) ELSE << >>

\* score, matched skills and is_match of an evaluation
Verdict(o) == <<o.val.match_score, o.val.matched_skills, o.val.is_match>>

\* C24: evaluate writes to no table and not to the audit log; its score,
\* matched skills and is_match are the same for the same criteria and
\* profile: what an evaluation returned is what an evaluation of the same
\* pair gives in every state reached from there by steps of record calls,
\* and any two pairs with equal criteria and equal profile get equal results.
C24_Pure ==
    /\ [][ \A r \in RequestIds, c \in UserIds :
             evaluate(r, c)
             => /\ users' = users
                /\ profiles' = profiles
                /\ connections' = connections
                /\ service_requests' = service_requests
                /\ agent_responses' = agent_responses
                /\ agent_messages' = agent_messages
                /\ txn' = txn ]_vars
    /\ [] (ret.op = "evaluate"
             => Verdict(ret.out) = Verdict(evaluate_match(ret.req, ret.user)))
    /\ [] (\A r1 \in 1..Len(service_requests), r2 \in 1..Len(service_requests) :
             \A c1 \in UserIds, c2 \in UserIds :
                (CriteriaOf(r1) = CriteriaOf(r2) /\ ProfileList(c1) = ProfileList(c2)
                   /\ profiles[c1].kind = profiles[c2].kind)
                => Verdict(evaluate_match(r1, c1)) = Verdict(evaluate_match(r2, c2)))

\* a candidate was evaluated as a match after the graph had grown, the
\* request had been broadcast and a response to it recorded
C24_Witness ==
    /\ ret.op = "evaluate"
    /\ RequestExists(ret.req)
    /\ ret.out.val.is_match
    /\ Len(connections) > 3
    /\ ResponsesTo(ret.req) # {}
    /\ \E p \in Attempts : txn[p].pc = "inserted"
    /\ \E i \in 1..Len(agent_messages) :
          /\ agent_messages[i].message_type = "query_broadcast"
          /\ agent_messages[i].request_id = ret.req

\* C29: under connect, broadcast, evaluate, record and rank, a message in the
\* log stays in it at its place with the same fields; and what rank can
\* return does not change over a step that leaves agent_responses,
\* connections and service_requests alone, whatever it does to the log.
C29_AppendOnly ==
    /\ [][ /\ Len(agent_messages') >= Len(agent_messages)
           /\ \A i \in 1..Len(agent_messages) : agent_messages'[i] = agent_messages[i] ]_vars
    /\ [][ \A r \in RequestIds :
             (/\ agent_responses' = agent_responses
              /\ connections' = connections
              /\ service_requests' = service_requests)
             => get_ranked_results(r)' = get_ranked_results(r) ]_vars

\* a response is in the log, the broadcast of the request came after it, an
\* edge was added, and rank returned the candidate
C29_Witness ==
    /\ ret.op = "rank"
    /\ ret.out.kind = "array"
    /\ Len(connections) > 3
    /\ Len(agent_messages) = 3
    /\ agent_messages[1].message_type = "response"
    /\ agent_messages[2].message_type = "query_broadcast"
    /\ agent_messages[3].message_type = "query_broadcast"

\* C31: every stored response carries the verdict of the evaluator for its
\* request and its candidate: the same is_match and the same match_score, so
\* that is_match is TRUE only with a match_score of at least 0.3.
C31_StoredVerdict ==
    \A i \in 1..Len(agent_responses) :
        LET ar == agent_responses[i]
            o == evaluate_match(ar.request_id, ar.responding_user_id).val
        IN  /\ ar.is_match = o.is_match
            /\ ar.match_score * o.match_score.den = 100 * o.match_score.num
            /\ ar.is_match => ar.match_score >= 30

\* C32: the match score always lies in [0, 1]: every evaluation returns a
\* score between 0 and 1, whatever the criteria and the profile's skill list
\* (a list holding one skill twice included), and every stored response has a
\* match_score between 0 and 1.
C32_ScoreRange ==
    /\ Evaluated =>
          LET s == ret.out.val.match_score
          IN  0 <= s.num /\ s.num <= s.den
    /\ \A i \in 1..Len(agent_responses) :
          0 <= agent_responses[i].match_score /\ agent_responses[i].match_score <= 100

\* C38: evaluating a candidate who has no profile, or whose profile lists no
\* skill, raises no error: the verdict is is_match FALSE, score 0, an empty
\* list of matched skills and the explanation 'No matching skills found', and
\* the evaluation writes nothing.
C38_State ==
    (/\ ret.op = "evaluate"
     /\ \/ profiles[ret.user].kind = "null"
        \/ profiles[ret.user] = Json(<< >>))
    => /\ ret.out.kind = "object"
       /\ ret.out.val.is_match = FALSE
       /\ ret.out.val.match_score.num = 0
       /\ ret.out.val.matched_skills = Json(<< >>)
       /\ ret.out.val.explanation = "No matching skills found"

C38_Step ==
    ret'.op = "evaluate" =>
        UNCHANGED <<frontend, profiles, users, connections, service_requests,
                    agent_responses, agent_messages, txn>>

C38_NoProfile == [] C38_State /\ [][C38_Step]_vars

C38_Witness ==
    /\ ret.op = "evaluate"
    /\ ret.user = Carol
    /\ profiles[Carol].kind = "null"
    /\ RequestExists(ret.req)
    /\ RequiredList(ret.req) # << >>

\* C34: the message log and the stored responses stay in step: for every
\* request and candidate the number of response messages of the candidate for
\* the request equals the number of stored responses for the pair, which is 0
\* or 1; a record that is rejected leaves no response message behind, and a
\* record that succeeds leaves exactly one.
C34_State ==
    \A r \in RequestIds, c \in UserIds :
        /\ Cardinality(ResponseMessagesOf(r, c)) = Cardinality(ResponsesOf(r, c))
        /\ Cardinality(ResponsesOf(r, c)) \in {0, 1}

C34_Step ==
    \A p \in Attempts :
        (txn[p].pc # "done" /\ txn'[p].pc = "done") =>
            IF txn'[p].out.kind = "error"
              THEN agent_messages' = agent_messages
              ELSE /\ Len(agent_messages') = Len(agent_messages) + 1
                   /\ agent_messages'[Len(agent_messages')].message_type = "response"
                   /\ agent_messages'[Len(agent_messages')].request_id = txn'[p].request_id
                   /\ agent_messages'[Len(agent_messages')].from_user_id =
                          txn'[p].responding_user_id

C34_InStep == [] C34_State /\ [][C34_Step]_vars

\* one record of a pair has succeeded, a second one of the pair was rejected,
\* and the log holds the one response message of the pair
C34_Witness ==
    \E p \in Attempts, q \in Attempts :
        /\ Succeeded(p)
        /\ txn[q].pc = "done"
        /\ txn[q].out.kind = "error"
        /\ SameKey(p, q)
        /\ Cardinality(ResponseMessagesOf(txn[p].request_id, txn[p].responding_user_id)) = 1

\* C37: every query_broadcast message of a request is sent by the user who
\* owns the request: a broadcast called with a user other than the owner does
\* not fan the request out to that user's neighbours.
C37_OwnerBroadcasts ==
    \A i \in 1..Len(agent_messages) :
        agent_messages[i].message_type = "query_broadcast" =>
            agent_messages[i].from_user_id =
                service_requests[agent_messages[i].request_id].requesting_user_id

\* C35: responses follow broadcasts: for every stored response of a candidate
\* to a request, the log holds a query_broadcast message of that request
\* addressed to that candidate (checked in every state, hence from the moment
\* the response is stored).
C35_BroadcastFirst ==
    \A i \in 1..Len(agent_responses) :
        \E j \in 1..Len(agent_messages) :
            /\ agent_messages[j].message_type = "query_broadcast"
            /\ agent_messages[j].request_id = agent_responses[i].request_id
            /\ agent_messages[j].to_user_id = agent_responses[i].responding_user_id

\* C36: every candidate in a ranking of request r is a first-degree connection
\* of the requester of r, and the requester is never ranked for their own
\* request.
C36_RankedAreNeighbors ==
    \A r \in RequestIds :
        Ranked(r) =>
            \A c \in RankedCandidates(ret.out) :
                /\ c # Requester(r)
                /\ c \in Neighbors(Requester(r))

\* C33: in every reachable state every connection has a trust_score in
\* [0.0, 1.0] (in hundredths: 0..100): a connect with a trust outside that
\* range leaves no such edge.
C33_TrustRange ==
    \A k \in 1..Len(connections) :
        0 <= connections[k].trust_score /\ connections[k].trust_score <= 100

\* C39: a reply to a profile-chat initialisation that arrives after logout, or
\* after another user has logged in, never alters the session: currentUser and
\* its copy in localStorage hold the identity of the user who logged in last,
\* every chat message shown answers a request made for that user, and a reply
\* to a request made for another user changes neither currentUser, nor
\* localStorage, nor the chat, nor conversationStarted.
C39_State ==
    /\ localStorage = currentUser
    /\ currentUser # null =>
          /\ currentUser.id = currentUser.email
          /\ \A i \in 1..Len(profile_messages) :
                profile_messages[i].request = currentUser.email

C39_Step ==
    \A f \in Slots :
        (/\ fetches[f].pc \in {"profile", "start"}
         /\ fetches'[f] # fetches[f]
         /\ currentUser = null \/ currentUser.email # fetches[f].user)
        => UNCHANGED <<currentUser, localStorage, profile_messages, conversationStarted>>

C39_StaleReplyIgnored == [] C39_State /\ [][C39_Step]_vars

\* C40: addConnection reports 'Connection created successfully!' only when
\* the server has created the connection; when the server rejects it, the
\* failure is shown.
C40_SuccessOnlyWhenCreated ==
    [][ \A f \in Slots :
          (fetches[f].pc = "response" /\ fetches'[f] # fetches[f])
          => alerted' = IF fetches[f].created
                          THEN "Connection created successfully!"
                          ELSE "Failed to create connection. Please try again." ]_vars
====
